---- MODULE Spec2Model ----
(***************************************************************************)
(* Model of the realestate-crm admin front-end:                            *)
(*   - the Session Provider (useAuth hook) and the Access Guard            *)
(*     (AuthGuard component);                                              *)
(*   - the Record Manager (PropertiesManager / PlotsManager), its form,    *)
(*     its asynchronous handlers, and the backend collaborators they call  *)
(*     (record store and object storage).                                  *)
(* Each asynchronous handler is a process whose program counter names the  *)
(* await it is suspended at; a step of the process is the completion of    *)
(* that call followed by the handler's code up to its next await.          *)
(***************************************************************************)
EXTENDS Integers, Sequences, FiniteSets, TLC

VARIABLES
    \* ---- Session Provider (useAuth) ----
    authState,      \* the hook's state {user, loading, initialized, error}
    mounted,        \* the effect's `mounted` flag
    subscribed,     \* the push-channel subscription is live
    fetchPc,        \* getInitialSession: "pending" until getUser settles
    events,         \* number of session-change events delivered so far
    lastIdentity,   \* history: identity carried by the last applied completion/event
    applied,        \* history: what has been applied to authState so far
    \* ---- Access Guard (AuthGuard) ----
    rendered,       \* the view the guard last rendered from, and what it rendered
    effectDeps,     \* the dependency values the guard's effect last ran with
    navigations,    \* number of navigate('/login') calls issued
    \* ---- backend collaborators ----
    store,          \* record table: id -> row
    storage,        \* object storage: the URLs that resolve
    nextId,         \* next backend-assigned record id
    nextUrl,        \* next URL the storage service hands out
    \* ---- Record Manager (PropertiesManager) ----
    properties,     \* locally cached list
    loading,
    error,
    editingProperty,
    showForm,
    procs,          \* the asynchronous handler invocations
    started,        \* number of handler invocations started by the user
    budget          \* number of handler invocations the run lets the user start

sessionVars == <<authState, mounted, subscribed, fetchPc, events, lastIdentity, applied>>
guardVars   == <<rendered, effectDeps, navigations>>
backendVars == <<store, storage, nextId, nextUrl>>
managerVars == <<properties, loading, error, editingProperty, showForm, procs, started, budget>>
vars == <<sessionVars, guardVars, backendVars, managerVars>>

----------------------------------------------------------------------------
(* Bounds of the model *)

MaxEvents == 3      \* session-change events delivered
MaxOps    == 1      \* handler invocations the user starts on a screen
MaxOverlap == 2     \* the same, on a screen whose handlers may overlap
MaxFiles  == 2      \* files selected in one image add

----------------------------------------------------------------------------
(* Values *)

\* A nullable value is a sequence of length 0 (null) or 1.
Null == << >>
Some(x) == <<x>>
IsNull(v) == v = Null
Val(v) == v[1]

Users == {"alice", "bob"}
Identities == {Null} \cup {Some(u) : u \in Users}

----------------------------------------------------------------------------
(* Session Provider: useAuth *)

InitialAuthState ==
    [user |-> Null, loading |-> TRUE, initialized |-> FALSE, error |-> FALSE]

\* Variant: the success branch marks the session initialized but keeps loading
FetchSucceeded_StillLoading(current, user) ==
    [user |-> user, loading |-> TRUE, initialized |-> TRUE, error |-> FALSE]

\* getInitialSession, success branch: setAuthState({user: data.user, ...})
FetchSucceeded(current, user) ==
    [user |-> user, loading |-> FALSE, initialized |-> TRUE, error |-> FALSE]

\* Variant: the catch branch ends loading without marking the session initialized
FetchFailed_NotInitialized(current) ==
    [user |-> Null, loading |-> FALSE, initialized |-> FALSE, error |-> TRUE]

\* getInitialSession, catch branch
FetchFailed(current) ==
    [user |-> Null, loading |-> FALSE, initialized |-> TRUE, error |-> TRUE]

\* Variant: the callback keeps the identity it has when the session is null
SessionChanged_KeepUser(current, sessionUser) ==
    [current EXCEPT !.user = IF IsNull(sessionUser) THEN @ ELSE sessionUser,
                    !.loading = FALSE, !.initialized = TRUE]

\* onAuthStateChange callback: {...current, user: session?.user ?? null, ...}
SessionChanged(current, sessionUser) ==
    [current EXCEPT !.user = sessionUser, !.loading = FALSE, !.initialized = TRUE]

\* The view the hook returns
ExposedUser(s) == IF s.initialized THEN s.user ELSE Null

UseAuth(s) ==
    [user |-> ExposedUser(s), loading |-> s.loading,
     error |-> s.error, isInitialized |-> s.initialized]

\* getUser resolves with an identity
GetInitialSessionOk(u) ==
    /\ fetchPc = "pending"
    /\ fetchPc' = "done"
    /\ IF mounted
       THEN /\ authState' = FetchSucceeded(authState, Some(u))
            /\ lastIdentity' = Some(u)
            /\ applied' = Append(applied, "fetch")
       ELSE UNCHANGED <<authState, lastIdentity, applied>>
    /\ UNCHANGED <<mounted, subscribed, events>>
    /\ UNCHANGED <<guardVars, backendVars, managerVars>>

\* getUser resolves with an error (or throws)
GetInitialSessionErr ==
    /\ fetchPc = "pending"
    /\ fetchPc' = "done"
    /\ IF mounted
       THEN /\ authState' = FetchFailed(authState)
            /\ lastIdentity' = Null
            /\ applied' = Append(applied, "fetch")
       ELSE UNCHANGED <<authState, lastIdentity, applied>>
    /\ UNCHANGED <<mounted, subscribed, events>>
    /\ UNCHANGED <<guardVars, backendVars, managerVars>>

\* A session-change event is delivered to the callback; an event already
\* dispatched may still arrive after the cleanup has run.
OnAuthStateChange(sessionUser) ==
    /\ events < MaxEvents
    /\ events' = events + 1
    /\ IF mounted
       THEN /\ authState' = SessionChanged(authState, sessionUser)
            /\ lastIdentity' = sessionUser
            /\ applied' = Append(applied, "event")
       ELSE UNCHANGED <<authState, lastIdentity, applied>>
    /\ UNCHANGED <<mounted, subscribed, fetchPc>>
    /\ UNCHANGED <<guardVars, backendVars, managerVars>>

\* Variant: the cleanup unsubscribes but leaves the `mounted` flag set
Cleanup_OnlyUnsubscribe ==
    /\ subscribed
    /\ subscribed' = FALSE
    /\ UNCHANGED <<authState, mounted, fetchPc, events, lastIdentity, applied>>
    /\ UNCHANGED <<guardVars, backendVars, managerVars>>

\* The effect's cleanup function
Cleanup ==
    /\ mounted
    /\ mounted' = FALSE
    /\ subscribed' = FALSE
    /\ UNCHANGED <<authState, fetchPc, events, lastIdentity, applied>>
    /\ UNCHANGED <<guardVars, backendVars, managerVars>>

----------------------------------------------------------------------------
(* Access Guard: AuthGuard *)

\* Variant: the guard renders its children as soon as loading is over
GuardOutput_NoUserCheck(view) ==
    IF view.loading THEN "placeholder" ELSE "children"

\* What the component returns for a view of the hook
GuardOutput(view) ==
    IF view.loading THEN "placeholder"
    ELSE IF ~IsNull(view.user) THEN "children"
    ELSE "nothing"

\* Variant: the effect redirects whenever loading is over and no user is exposed
ShouldNavigate_NoInitCheck(view) ==
    ~view.loading /\ IsNull(view.user)

\* The effect's condition for navigate('/login')
ShouldNavigate(view) ==
    ~view.loading /\ IsNull(view.user) /\ ~view.isInitialized

\* The effect's dependency array [user, loading, navigate]
GuardDeps(view) == <<view.user, view.loading>>

Render(view) == [view |-> view, out |-> GuardOutput(view)]

\* React re-renders the guard after a state change of the hook, then runs the
\* effect if a dependency changed, with the values of that render.
GuardRender ==
    /\ mounted
    /\ rendered.view # UseAuth(authState)
    /\ rendered' = Render(UseAuth(authState))
    /\ IF effectDeps # GuardDeps(UseAuth(authState))
       THEN /\ effectDeps' = GuardDeps(UseAuth(authState))
            /\ navigations' = IF ShouldNavigate(UseAuth(authState))
                              THEN navigations + 1 ELSE navigations
       ELSE UNCHANGED <<effectDeps, navigations>>
    /\ UNCHANGED <<sessionVars, backendVars, managerVars>>

SessionInit ==
    /\ authState = InitialAuthState
    /\ mounted = TRUE
    /\ subscribed = TRUE
    /\ fetchPc = "pending"
    /\ events = 0
    /\ lastIdentity = Null
    /\ applied = << >>
    /\ rendered = Render(UseAuth(InitialAuthState))
    /\ effectDeps = GuardDeps(UseAuth(InitialAuthState))
    /\ navigations = 0

SessionNext ==
    \/ \E u \in Users : GetInitialSessionOk(u)
    \/ GetInitialSessionErr
    \/ \E s \in Identities : OnAuthStateChange(s)
    \/ Cleanup
    \/ GuardRender

----------------------------------------------------------------------------
(* Values of the Record Manager *)

\* A JavaScript number as parseFloat returns it: a value or NaN
Num(v) == [nan |-> FALSE, val |-> v]
NaN == [nan |-> TRUE, val |-> 0]

Digits == <<"0", "1", "2", "3", "4", "5", "6", "7", "8", "9">>
IsDigit(c) == \E i \in 1..Len(Digits) : Digits[i] = c
DigitVal(c) == (CHOOSE i \in 1..Len(Digits) : Digits[i] = c) - 1

\* Form texts the user may have typed into the numeric field
Texts == { <<"7">>, <<"7", "a">>, <<"a">> }

RECURSIVE DigitPrefix(_)
DigitPrefix(s) ==
    IF s = << >> \/ ~IsDigit(Head(s)) THEN << >>
    ELSE <<Head(s)>> \o DigitPrefix(Tail(s))

RECURSIVE Decimal(_)
Decimal(ds) ==
    IF ds = << >> THEN 0
    ELSE 10 * Decimal(SubSeq(ds, 1, Len(ds) - 1)) + DigitVal(ds[Len(ds)])

\* parseFloat: the value of the longest numeric prefix, NaN when there is none
ParseFloat(s) ==
    IF DigitPrefix(s) = << >> THEN NaN ELSE Num(Decimal(DigitPrefix(s)))

\* The text is a number as a whole
IsNumericText(s) == s # << >> /\ DigitPrefix(s) = s

Range(s) == {s[i] : i \in 1..Len(s)}

RECURSIVE Filter(_, _)
Filter(s, x) ==
    IF s = << >> THEN << >>
    ELSE IF Head(s) = x THEN Filter(Tail(s), x)
    ELSE <<Head(s)>> \o Filter(Tail(s), x)

----------------------------------------------------------------------------
(* Backend collaborators *)

Max(S) == CHOOSE x \in S : \A y \in S : y <= x

\* select('*').order('created_at', {ascending: false}); ids grow with creation time
RECURSIVE SelectAll(_)
SelectAll(st) ==
    IF DOMAIN st = {} THEN << >>
    ELSE LET m == Max(DOMAIN st)
         IN <<[id |-> m, price |-> st[m].price, images |-> st[m].images]>>
            \o SelectAll([i \in DOMAIN st \ {m} |-> st[i]])

\* update(partial).eq('id', id): merges the partial into the matching row, if any
UpdateRow(st, id, data) ==
    IF id \in DOMAIN st
    THEN [st EXCEPT ![id] =
            [price |-> IF IsNull(data.price) THEN @.price ELSE Val(data.price),
             images |-> data.images]]
    ELSE st

\* insert([row])
InsertRow(st, id, data) ==
    [i \in DOMAIN st \cup {id} |->
        IF i = id THEN [price |-> Val(data.price), images |-> data.images] ELSE st[i]]

\* delete().eq('id', id)
DeleteRow(st, id) == [i \in DOMAIN st \ {id} |-> st[i]]

\* uploadImage(file, namespace, ownerKey): stores the object, returns its URL
UploadImage(objs, url) == objs \cup {url}

\* deleteImage(namespace, url): removes the object; an absent object is no error
DeleteImage(objs, url) == objs \ {url}

\* uploadImage and deleteImage reject (throw) when the storage call fails
Rejects(ok) == ~ok

----------------------------------------------------------------------------
(* Handler invocations *)

\* Invocation 0 is the fetch issued on mount; the user starts the others
Procs == 0..(IF MaxOps > MaxOverlap THEN MaxOps ELSE MaxOverlap)

\* One backend call of a handler's trace
Call(op, id, url, data) ==
    [op |-> op, id |-> id, url |-> url, data |-> data, res |-> "pending"]

NoData == [price |-> Null, images |-> << >>]
ImagesOnly(images) == [price |-> Null, images |-> images]

\* kind: the handler; pc: the await it is suspended at; ed: the draft its closure
\* captured; n: its argument (URL, file count); text: the numeric field's text;
\* calls: the backend calls it has issued, in order; over (history): the
\* invocations that had not returned when this one was started
IdleProc ==
    [kind |-> "idle", pc |-> "done", ed |-> Null, n |-> 0, text |-> << >>,
     calls |-> << >>, over |-> {}]

\* The invocations that have not returned yet
InFlight == {q \in Procs : procs[q].pc # "done"}

Pending(p) == {i \in 1..Len(procs[p].calls) : procs[p].calls[i].res = "pending"}

CanStart == ~loading /\ started < budget

Slot == started + 1

Settle(calls, i, res) == [calls EXCEPT ![i].res = res]

\* Variant: the catch stores no message
Msg_None(what) == Null

\* setError(err.message)
Msg(what) == Some(what)

----------------------------------------------------------------------------
(* Record Manager: PropertiesManager *)

\* The table and the bucket as the screen finds them
InitialImages == <<1, 2>>
InitialStore == [i \in {1} |-> [price |-> Num(5), images |-> InitialImages]]

SetProc(p, kind, pc, ed, n, calls) ==
    [procs EXCEPT ![p] = [kind |-> kind, pc |-> pc, ed |-> ed, n |-> n,
                          text |-> << >>, calls |-> calls, over |-> InFlight]]

\* fetchProperties after its select has settled: setProperties / setError, setLoading(false)
FetchedProperties(ok) == IF ok THEN SelectAll(store) ELSE properties
FetchedError(ok) == IF ok THEN error ELSE Msg("select failed")

\* Variant: the loading flag is cleared only when the select succeeded
FetchedLoading_OnlyOnSuccess(ok) == IF ok THEN FALSE ELSE loading

\* finally { setLoading(false) }
FetchedLoading(ok) == FALSE

\* useEffect(() => { fetchProperties() }): the select issued on mount settles
FetchProperties(p, ok) ==
    /\ procs[p].kind = "fetch" /\ procs[p].pc = "select"
    /\ properties' = FetchedProperties(ok)
    /\ error' = FetchedError(ok)
    /\ loading' = FetchedLoading(ok)
    /\ procs' = [procs EXCEPT ![p].pc = "done",
                              ![p].calls = Settle(@, 1, IF ok THEN "ok" ELSE "fail")]
    /\ UNCHANGED <<editingProperty, showForm, started>>
    /\ UNCHANGED <<budget, sessionVars, guardVars, backendVars>>

\* "Add Property" button
OpenCreate ==
    /\ ~loading
    /\ editingProperty' = Null
    /\ showForm' = TRUE
    /\ UNCHANGED <<properties, loading, error, procs, started>>
    /\ UNCHANGED <<budget, sessionVars, guardVars, backendVars>>

\* Edit button of row i
OpenEdit(i) ==
    /\ ~loading
    /\ i \in 1..Len(properties)
    /\ editingProperty' = Some(properties[i])
    /\ showForm' = TRUE
    /\ UNCHANGED <<properties, loading, error, procs, started>>
    /\ UNCHANGED <<budget, sessionVars, guardVars, backendVars>>

\* Cancel button
Cancel ==
    /\ ~loading
    /\ showForm
    /\ showForm' = FALSE
    /\ UNCHANGED <<properties, loading, error, editingProperty, procs, started>>
    /\ UNCHANGED <<budget, sessionVars, guardVars, backendVars>>

\* handleSubmit: the record sent to the backend
PropertyData(text, ed) ==
    [price |-> Some(ParseFloat(text)),
     images |-> IF IsNull(ed) THEN << >> ELSE Val(ed).images]

\* Variant: the submit inserts even when a record is being edited
SubmitCall_AlwaysInsert(text, ed) ==
    Call("insert", 0, 0, PropertyData(text, ed))

\* handleSubmit: the write it issues
SubmitCall(text, ed) ==
    IF ~IsNull(ed)
    THEN Call("update", Val(ed).id, 0, PropertyData(text, ed))
    ELSE Call("insert", 0, 0, PropertyData(text, ed))

\* handleSubmit up to its first await
HandleSubmit(text) ==
    /\ CanStart
    /\ showForm
    /\ error' = Null
    /\ procs' = [SetProc(Slot, "submit", "write", editingProperty, 0,
                          <<SubmitCall(text, editingProperty)>>)
                    EXCEPT ![Slot].text = text]
    /\ started' = started + 1
    /\ UNCHANGED <<properties, loading, editingProperty, showForm>>
    /\ UNCHANGED <<budget, sessionVars, guardVars, backendVars>>

\* handleSubmit: the insert/update settles; on success fetchProperties is called
SubmitWrite(p, ok) ==
    /\ procs[p].kind = "submit" /\ procs[p].pc = "write"
    /\ LET c == procs[p].calls[1] IN
       IF ok
       THEN /\ store' = IF c.op = "update" THEN UpdateRow(store, c.id, c.data)
                        ELSE InsertRow(store, nextId, c.data)
            /\ nextId' = IF c.op = "insert" THEN nextId + 1 ELSE nextId
            /\ procs' = [procs EXCEPT ![p].pc = "refetch",
                           ![p].calls = Append(Settle(@, 1, "ok"), Call("select", 0, 0, NoData))]
            /\ UNCHANGED error
       ELSE /\ error' = Msg("write failed")
            /\ procs' = [procs EXCEPT ![p].pc = "done", ![p].calls = Settle(@, 1, "fail")]
            /\ UNCHANGED <<store, nextId>>
    /\ UNCHANGED <<properties, loading, editingProperty, showForm, started>>
    /\ UNCHANGED <<storage, nextUrl>>
    /\ UNCHANGED <<budget, sessionVars, guardVars>>

\* handleSubmit: fetchProperties returns; the form is closed and the draft cleared
SubmitRefetch(p, ok) ==
    /\ procs[p].kind = "submit" /\ procs[p].pc = "refetch"
    /\ properties' = FetchedProperties(ok)
    /\ error' = FetchedError(ok)
    /\ loading' = FetchedLoading(ok)
    /\ showForm' = FALSE
    /\ editingProperty' = Null
    /\ procs' = [procs EXCEPT ![p].pc = "done",
                    ![p].calls = Settle(@, Len(@), IF ok THEN "ok" ELSE "fail")]
    /\ UNCHANGED started
    /\ UNCHANGED <<budget, sessionVars, guardVars, backendVars>>

----------------------------------------------------------------------------
(* Image add: handleImageUpload *)

\* Variant: with no record being edited the files go under the key of record 1
OwnerKey_FirstRecord(ed) == IF IsNull(ed) THEN 1 ELSE Val(ed).id

\* `${type}/${editingProperty?.id || 'new'}`: 0 stands for the key 'new'
OwnerKey(ed) == IF IsNull(ed) THEN 0 ELSE Val(ed).id

\* Promise.all(files.map(file => uploadImage(...))): one call per file
\* The object's URL is fixed by the call (its path), before the upload settles
UploadCalls(nfiles, ed, first) ==
    [i \in 1..nfiles |-> Call("upload", OwnerKey(ed), first + i - 1, NoData)]

\* The URLs of a settled batch, in file order
BatchUrls(calls, n) == [i \in 1..n |-> calls[i].url]

\* Variant: the new URLs replace the draft's images
ImagesAfterUpload_OnlyNew(ed, urls) == urls

\* [...editingProperty.images, ...urls]
ImagesAfterUpload(ed, urls) == Val(ed).images \o urls

\* Variant: the URL is not filtered out of the draft's images
ImagesAfterDelete_Keep(ed, url) == Val(ed).images

\* editingProperty.images.filter(img => img !== url)
ImagesAfterDelete(ed, url) == Filter(Val(ed).images, url)

\* Variant: the batch counts as resolved with its first success
BatchResolved_AnyOne(calls, n) == \E i \in 1..n : calls[i].res = "ok"

\* Promise.all has resolved: every call of the batch settled successfully
BatchResolved(calls, n) == \A i \in 1..n : calls[i].res = "ok"

\* handleImageUpload up to its first await
HandleImageUpload(nfiles) ==
    /\ CanStart
    /\ showForm
    /\ procs' = SetProc(Slot, "upload", "uploads", editingProperty, nfiles,
                        UploadCalls(nfiles, editingProperty, nextUrl))
    /\ nextUrl' = nextUrl + nfiles
    /\ started' = started + 1
    /\ UNCHANGED <<properties, loading, error, editingProperty, showForm>>
    /\ UNCHANGED <<store, storage, nextId>>
    /\ UNCHANGED <<budget, sessionVars, guardVars>>

\* One upload of the batch settles.  A rejection rejects Promise.all at once
\* (the other uploads still run); the last success resolves it, and the
\* handler merges the URLs into the draft and issues the update.
UploadSettles(p, i, ok) ==
    /\ procs[p].kind = "upload"
    /\ i \in Pending(p) /\ procs[p].calls[i].op = "upload"
    /\ LET calls == Settle(procs[p].calls, i, IF ok THEN "ok" ELSE "fail")
           ed == procs[p].ed
       IN /\ storage' = IF ok THEN UploadImage(storage, procs[p].calls[i].url) ELSE storage
          /\ IF procs[p].pc # "uploads"
             THEN /\ procs' = [procs EXCEPT ![p].calls = calls]
                  /\ UNCHANGED <<error, editingProperty>>
             ELSE IF Rejects(ok)
             THEN /\ error' = Msg("upload failed")
                  /\ procs' = [procs EXCEPT ![p].calls = calls, ![p].pc = "done"]
                  /\ UNCHANGED editingProperty
             ELSE IF ~BatchResolved(calls, procs[p].n)
             THEN /\ procs' = [procs EXCEPT ![p].calls = calls]
                  /\ UNCHANGED <<error, editingProperty>>
             ELSE IF IsNull(ed)
             THEN /\ procs' = [procs EXCEPT ![p].calls = calls, ![p].pc = "done"]
                  /\ UNCHANGED <<error, editingProperty>>
             ELSE LET updatedImages == ImagesAfterUpload(ed, BatchUrls(calls, procs[p].n))
                  IN /\ editingProperty' = Some([Val(ed) EXCEPT !.images = updatedImages])
                     /\ procs' = [procs EXCEPT ![p].pc = "persist",
                            ![p].calls = Append(calls,
                                Call("update", Val(ed).id, 0, ImagesOnly(updatedImages)))]
                     /\ UNCHANGED error
    /\ UNCHANGED <<properties, loading, showForm, started>>
    /\ UNCHANGED <<store, nextId, nextUrl>>
    /\ UNCHANGED <<budget, sessionVars, guardVars>>

\* The images update of an image add/remove settles; its result is not inspected
PersistSettles(p, ok) ==
    /\ procs[p].kind \in {"upload", "imgdel"} /\ procs[p].pc = "persist"
    /\ LET c == procs[p].calls[Len(procs[p].calls)]
       IN store' = IF ok THEN UpdateRow(store, c.id, c.data) ELSE store
    /\ procs' = [procs EXCEPT ![p].pc = "done",
                    ![p].calls = Settle(@, Len(@), IF ok THEN "ok" ELSE "fail")]
    /\ UNCHANGED <<properties, loading, error, editingProperty, showForm, started>>
    /\ UNCHANGED <<storage, nextId, nextUrl>>
    /\ UNCHANGED <<budget, sessionVars, guardVars>>

----------------------------------------------------------------------------
(* Image remove: handleImageDelete *)

\* handleImageDelete up to its first await; the uploader offers the draft's images
HandleImageDelete(url) ==
    /\ CanStart
    /\ showForm
    /\ ~IsNull(editingProperty)
    /\ url \in Range(Val(editingProperty).images)
    /\ procs' = SetProc(Slot, "imgdel", "remove", editingProperty, url,
                        <<Call("remove", 0, url, NoData)>>)
    /\ started' = started + 1
    /\ UNCHANGED <<properties, loading, error, editingProperty, showForm>>
    /\ UNCHANGED <<budget, sessionVars, guardVars, backendVars>>

\* deleteImage settles; on success the URL is dropped from the draft and the
\* update issued, on failure the catch sets the error
ImageDeleteSettles(p, ok) ==
    /\ procs[p].kind = "imgdel" /\ procs[p].pc = "remove"
    /\ LET ed == procs[p].ed
           url == procs[p].n
           calls == Settle(procs[p].calls, 1, IF ok THEN "ok" ELSE "fail")
       IN IF Rejects(ok)
          THEN /\ error' = Msg("remove failed")
               /\ procs' = [procs EXCEPT ![p].calls = calls, ![p].pc = "done"]
               /\ UNCHANGED <<storage, editingProperty>>
          ELSE /\ storage' = DeleteImage(storage, url)
               /\ UNCHANGED error
               /\ IF IsNull(ed)
                  THEN /\ procs' = [procs EXCEPT ![p].calls = calls, ![p].pc = "done"]
                       /\ UNCHANGED editingProperty
                  ELSE LET updatedImages == ImagesAfterDelete(ed, url)
                       IN /\ editingProperty' = Some([Val(ed) EXCEPT !.images = updatedImages])
                          /\ procs' = [procs EXCEPT ![p].pc = "persist",
                                 ![p].calls = Append(calls,
                                     Call("update", Val(ed).id, 0, ImagesOnly(updatedImages)))]
    /\ UNCHANGED <<properties, loading, showForm, started>>
    /\ UNCHANGED <<store, nextId, nextUrl>>
    /\ UNCHANGED <<budget, sessionVars, guardVars>>

----------------------------------------------------------------------------
(* Delete: handleDelete *)

\* property.images.map(url => deleteImage('properties', url))
RemoveCalls(property) ==
    [i \in 1..Len(property.images) |-> Call("remove", 0, property.images[i], NoData)]

\* Variant: the cascade is issued whatever confirm(...) answers
DeclinedCalls_Cascade(property) == RemoveCalls(property)

\* if (!confirm(...)) return: the calls of a declined delete
DeclinedCalls(property) == << >>

\* confirm(...) answered with no: the handler returns at once
DeleteDeclined(i) ==
    /\ CanStart
    /\ i \in 1..Len(properties)
    /\ procs' = SetProc(Slot, "declined", "done", Some(properties[i]), 0,
                        DeclinedCalls(properties[i]))
    /\ started' = started + 1
    /\ UNCHANGED <<properties, loading, error, editingProperty, showForm>>
    /\ UNCHANGED <<budget, sessionVars, guardVars, backendVars>>

\* handleDelete, confirmed, up to its first await.  Promise.all of no promises
\* resolves without a call, and the record delete is issued.
HandleDelete(i) ==
    /\ CanStart
    /\ i \in 1..Len(properties)
    /\ LET property == properties[i]
       IN procs' =
            IF property.images = << >>
            THEN SetProc(Slot, "delete", "delete", Some(property), 0,
                         <<Call("delete", property.id, 0, NoData)>>)
            ELSE SetProc(Slot, "delete", "removes", Some(property),
                         Len(property.images), RemoveCalls(property))
    /\ started' = started + 1
    /\ UNCHANGED <<properties, loading, error, editingProperty, showForm>>
    /\ UNCHANGED <<budget, sessionVars, guardVars, backendVars>>

\* One storage delete of the cascade settles.  A rejection rejects Promise.all
\* and the catch sets the error; the last success resolves it and the record
\* delete is issued.
CascadeSettles(p, i, ok) ==
    /\ procs[p].kind = "delete"
    /\ i \in Pending(p) /\ procs[p].calls[i].op = "remove"
    /\ LET calls == Settle(procs[p].calls, i, IF ok THEN "ok" ELSE "fail")
           property == Val(procs[p].ed)
       IN /\ storage' = IF ok THEN DeleteImage(storage, procs[p].calls[i].url) ELSE storage
          /\ IF procs[p].pc # "removes"
             THEN /\ procs' = [procs EXCEPT ![p].calls = calls]
                  /\ UNCHANGED error
             ELSE IF Rejects(ok)
             THEN /\ error' = Msg("remove failed")
                  /\ procs' = [procs EXCEPT ![p].calls = calls, ![p].pc = "done"]
             ELSE IF ~BatchResolved(calls, procs[p].n)
             THEN /\ procs' = [procs EXCEPT ![p].calls = calls]
                  /\ UNCHANGED error
             ELSE /\ procs' = [procs EXCEPT ![p].pc = "delete",
                         ![p].calls = Append(calls, Call("delete", property.id, 0, NoData))]
                  /\ UNCHANGED error
    /\ UNCHANGED <<properties, loading, editingProperty, showForm, started>>
    /\ UNCHANGED <<store, nextId, nextUrl>>
    /\ UNCHANGED <<budget, sessionVars, guardVars>>

\* The record delete settles; on success fetchProperties is called
DeleteRecord(p, ok) ==
    /\ procs[p].kind = "delete" /\ procs[p].pc = "delete"
    /\ LET k == Len(procs[p].calls)
           c == procs[p].calls[k]
       IN IF ok
          THEN /\ store' = DeleteRow(store, c.id)
               /\ procs' = [procs EXCEPT ![p].pc = "refetch",
                      ![p].calls = Append(Settle(@, k, "ok"), Call("select", 0, 0, NoData))]
               /\ UNCHANGED error
          ELSE /\ error' = Msg("delete failed")
               /\ procs' = [procs EXCEPT ![p].pc = "done", ![p].calls = Settle(@, k, "fail")]
               /\ UNCHANGED store
    /\ UNCHANGED <<properties, loading, editingProperty, showForm, started>>
    /\ UNCHANGED <<storage, nextId, nextUrl>>
    /\ UNCHANGED <<budget, sessionVars, guardVars>>

\* handleDelete: fetchProperties returns
DeleteRefetch(p, ok) ==
    /\ procs[p].kind = "delete" /\ procs[p].pc = "refetch"
    /\ properties' = FetchedProperties(ok)
    /\ error' = FetchedError(ok)
    /\ loading' = FetchedLoading(ok)
    /\ procs' = [procs EXCEPT ![p].pc = "done",
                    ![p].calls = Settle(@, Len(@), IF ok THEN "ok" ELSE "fail")]
    /\ UNCHANGED <<editingProperty, showForm, started>>
    /\ UNCHANGED <<budget, sessionVars, guardVars, backendVars>>

----------------------------------------------------------------------------
(* Specifications *)

ManagerInit(ops) ==
    /\ budget = ops
    /\ store = InitialStore
    /\ storage = Range(InitialImages)
    /\ nextId = Cardinality(DOMAIN InitialStore) + 1
    /\ nextUrl = Len(InitialImages) + 1
    /\ properties = << >>
    /\ loading = TRUE
    /\ error = Null
    /\ editingProperty = Null
    /\ showForm = FALSE
    /\ procs = [p \in Procs |->
                  IF p = 0
                  THEN [kind |-> "fetch", pc |-> "select", ed |-> Null, n |-> 0,
                        text |-> << >>, calls |-> <<Call("select", 0, 0, NoData)>>,
                        over |-> {}]
                  ELSE IdleProc]
    /\ started = 0

ManagerNext ==
    \/ \E p \in Procs, ok \in BOOLEAN : FetchProperties(p, ok)
    \/ OpenCreate
    \/ \E i \in 1..Len(properties) : OpenEdit(i)
    \/ Cancel
    \/ \E text \in Texts : HandleSubmit(text)
    \/ \E p \in Procs, ok \in BOOLEAN : SubmitWrite(p, ok)
    \/ \E p \in Procs, ok \in BOOLEAN : SubmitRefetch(p, ok)
    \/ \E nfiles \in 1..MaxFiles : HandleImageUpload(nfiles)
    \/ \E p \in Procs, ok \in BOOLEAN : \E i \in Pending(p) : UploadSettles(p, i, ok)
    \/ \E p \in Procs, ok \in BOOLEAN : PersistSettles(p, ok)
    \/ \E url \in 1..(nextUrl - 1) : HandleImageDelete(url)
    \/ \E p \in Procs, ok \in BOOLEAN : ImageDeleteSettles(p, ok)
    \/ \E i \in 1..Len(properties) : DeleteDeclined(i)
    \/ \E i \in 1..Len(properties) : HandleDelete(i)
    \/ \E p \in Procs, ok \in BOOLEAN : \E i \in Pending(p) : CascadeSettles(p, i, ok)
    \/ \E p \in Procs, ok \in BOOLEAN : DeleteRecord(p, ok)
    \/ \E p \in Procs, ok \in BOOLEAN : DeleteRefetch(p, ok)

Init == SessionInit /\ ManagerInit(MaxOps)

InitOverlap == SessionInit /\ ManagerInit(MaxOverlap)

Next == SessionNext \/ ManagerNext

\* The session provider and the guard on their own
SpecSession == Init /\ [][SessionNext]_vars

\* A manager screen on its own
SpecManager == Init /\ [][ManagerNext]_vars

\* A manager screen on which the user starts a handler while another is in flight
SpecOverlap == InitOverlap /\ [][ManagerNext]_vars

\* The completion of an outstanding backend or storage call
SettleNext ==
    \/ \E p \in Procs, ok \in BOOLEAN : FetchProperties(p, ok)
    \/ \E p \in Procs, ok \in BOOLEAN : SubmitWrite(p, ok)
    \/ \E p \in Procs, ok \in BOOLEAN : SubmitRefetch(p, ok)
    \/ \E p \in Procs, ok \in BOOLEAN : \E i \in Pending(p) : UploadSettles(p, i, ok)
    \/ \E p \in Procs, ok \in BOOLEAN : PersistSettles(p, ok)
    \/ \E p \in Procs, ok \in BOOLEAN : ImageDeleteSettles(p, ok)
    \/ \E p \in Procs, ok \in BOOLEAN : \E i \in Pending(p) : CascadeSettles(p, i, ok)
    \/ \E p \in Procs, ok \in BOOLEAN : DeleteRecord(p, ok)
    \/ \E p \in Procs, ok \in BOOLEAN : DeleteRefetch(p, ok)

\* A manager screen whose backend and storage calls all return eventually:
\* as long as a call is outstanding, some outstanding call settles
SpecManagerFair == Init /\ [][ManagerNext]_vars /\ WF_vars(SettleNext)

Spec == Init /\ [][Next]_vars

----------------------------------------------------------------------------
(* Session Provider and Access Guard: properties *)

\* C1, as stated: in every state before the initial identity fetch has
\* resolved, the provider's loading is true, the guard renders the loading
\* placeholder, and no navigation has been issued.
C1_BeforeFetchAlwaysPlaceholder ==
    fetchPc = "pending" =>
        /\ authState.loading
        /\ rendered.out = "placeholder"
        /\ navigations = 0

\* C1, amended: before the initial identity fetch has resolved no navigation
\* has been issued, however many session-change events have fired; and as long
\* as no session-change event has been applied either, loading is true and the
\* guard renders the loading placeholder.
C1_BeforeFetchNoNavigation ==
    fetchPc = "pending" =>
        /\ navigations = 0
        /\ applied = << >> =>
              /\ authState.loading
              /\ rendered.out = "placeholder"
              /\ GuardOutput(UseAuth(authState)) = "placeholder"

\* Several session-change events were applied and rendered while the fetch is pending
C1_Witness ==
    /\ fetchPc = "pending"
    /\ Len(applied) >= 2
    /\ rendered.view = UseAuth(authState)
    /\ rendered.out = "nothing"

\* C2: the guard renders the protected subtree only from a view that is not
\* loading, is initialized and exposes a user; and the provider exposes a user
\* only when it is initialized.
C2_ChildrenOnlyForInitializedUser ==
    /\ rendered.out = "children" =>
          /\ ~rendered.view.loading
          /\ rendered.view.isInitialized
          /\ ~IsNull(rendered.view.user)
    /\ GuardOutput(UseAuth(authState)) = "children" =>
          /\ ~authState.loading
          /\ authState.initialized
          /\ ~IsNull(ExposedUser(authState))
    /\ ~IsNull(UseAuth(authState).user) => UseAuth(authState).isInitialized

\* The guard has rendered the protected subtree
C2_Witness ==
    /\ rendered.out = "children"
    /\ rendered.view = UseAuth(authState)

\* C3: once the provider is initialized, the exposed user is the identity
\* carried by the fetch completion or session-change event applied last
\* (absent for a failed fetch or a null session).
C3_UserIsLatestIdentity ==
    authState.initialized => ExposedUser(authState) = lastIdentity

\* The fetch completed after two session-change events had been applied
C3_Witness ==
    /\ authState.initialized
    /\ Len(applied) >= 3
    /\ applied[Len(applied)] = "fetch"

----------------------------------------------------------------------------
(* Record Manager: properties *)

\* Invocation p takes this step
Step(p) == procs'[p] # procs[p]

HasCall(c, op) == \E i \in 1..Len(c) : c[i].op = op

\* C4, the order: an image remove issues the storage delete of U first; the
\* update is issued only once that delete has succeeded, targets the draft's
\* record and omits U; after a failed storage delete no update is issued.
C4_RemoveTrace ==
    \A p \in Procs : procs[p].kind = "imgdel" =>
        LET c == procs[p].calls
            U == procs[p].n
        IN /\ Len(c) \in 1..2
           /\ c[1].op = "remove" /\ c[1].url = U
           /\ Len(c) = 2 =>
                 /\ c[1].res = "ok"
                 /\ c[2].op = "update"
                 /\ c[2].id = Val(procs[p].ed).id
                 /\ U \notin Range(c[2].data.images)
           /\ c[1].res = "fail" => Len(c) = 1 /\ procs[p].pc = "done"
           /\ c[1].res = "pending" => U \in Range(Val(procs[p].ed).images)

\* C4, the failure: the step in which the storage delete fails changes neither
\* the draft nor the store nor the storage.
C4_RemoveFailureStep ==
    \A p \in Procs :
        (procs[p].kind = "imgdel" /\ procs[p].pc = "remove"
            /\ procs'[p].calls[1].res = "fail") =>
        /\ editingProperty' = editingProperty
        /\ store' = store
        /\ storage' = storage

\* C4: image remove is delete-then-persist, and a failed storage delete leaves
\* the draft and the record as they were.
C4_ImageRemoveDeleteThenPersist ==
    []C4_RemoveTrace /\ [][C4_RemoveFailureStep]_vars

\* An image remove whose storage delete succeeded and whose update was applied
C4_Witness ==
    \E p \in Procs :
        /\ procs[p].kind = "imgdel" /\ procs[p].pc = "done"
        /\ Len(procs[p].calls) = 2 /\ procs[p].calls[2].res = "ok"
        /\ procs[p].n \notin storage

\* C5, the calls: an image add of N files to a draft with id R and images S
\* issues exactly N uploads under R's key; the one update is issued exactly when
\* all N have succeeded, on R, with images S followed by the N URLs in file
\* order; after a failed upload no update is issued.
C5_UploadTrace ==
    \A p \in Procs : (procs[p].kind = "upload" /\ ~IsNull(procs[p].ed)) =>
        LET c == procs[p].calls
            n == procs[p].n
            R == Val(procs[p].ed).id
            S == Val(procs[p].ed).images
        IN /\ Len(c) \in n..(n + 1)
           /\ \A i \in 1..n : c[i].op = "upload" /\ c[i].id = R
           /\ Len(c) = n + 1 <=> \A i \in 1..n : c[i].res = "ok"
           /\ Len(c) = n + 1 =>
                 /\ c[n + 1].op = "update"
                 /\ c[n + 1].id = R
                 /\ c[n + 1].data = ImagesOnly(S \o [i \in 1..n |-> c[i].url])
           /\ (\E i \in 1..n : c[i].res = "fail") => Len(c) = n

\* C5, the record: while the uploads are outstanding, no step of the image add
\* changes the store.
C5_UploadStep ==
    \A p \in Procs :
        (procs[p].kind = "upload" /\ procs[p].pc = "uploads" /\ Step(p)) =>
        store' = store

\* C5: image add uploads all files, then persists S plus the new URLs once.
C5_ImageAddUploadThenPersist ==
    []C5_UploadTrace /\ [][C5_UploadStep]_vars

\* Two files were added to a record that had images, and the update was applied
C5_Witness ==
    \E p \in Procs :
        /\ procs[p].kind = "upload" /\ procs[p].pc = "done"
        /\ procs[p].n = 2 /\ Len(procs[p].calls) = 3
        /\ procs[p].calls[3].res = "ok"
        /\ Len(Val(procs[p].ed).images) >= 1
        /\ store[Val(procs[p].ed).id].images = procs[p].calls[3].data.images

C7_FailedStorageDeleteDoesNotAbort ==
    \A p \in Procs :
        (procs[p].kind = "delete" /\ procs[p].pc = "done") =>
        HasCall(procs[p].calls, "delete")

\* C8, as stated: a submit whose numeric field's text is not a number issues
\* no insert and no update.
C8_NonNumericRejectedBeforeCall ==
    \A p \in Procs :
        (procs[p].kind = "submit" /\ ~IsNumericText(procs[p].text)) =>
        /\ ~HasCall(procs[p].calls, "insert")
        /\ ~HasCall(procs[p].calls, "update")

\* C8, in particular: no insert or update carries NaN.
C8_NoWriteCarriesNaN ==
    \A p \in Procs : \A i \in 1..Len(procs[p].calls) :
        LET c == procs[p].calls[i]
        IN (c.op \in {"insert", "update"} /\ ~IsNull(c.data.price)) =>
           ~Val(c.data.price).nan

\* C9, the calls: a submit issues one write, an insert when no record is being
\* edited and an update of the edited record otherwise, carrying the parsed
\* number; the one refetch is issued exactly when the write has succeeded.
C9_SubmitTrace ==
    \A p \in Procs : procs[p].kind = "submit" =>
        LET c == procs[p].calls
            ed == procs[p].ed
        IN /\ Len(c) \in 1..2
           /\ IsNull(ed) => c[1].op = "insert"
           /\ ~IsNull(ed) => c[1].op = "update" /\ c[1].id = Val(ed).id
           /\ IsNumericText(procs[p].text) =>
                 c[1].data.price = Some(Num(Decimal(procs[p].text)))
           /\ Len(c) = 2 <=> c[1].res = "ok"
           /\ Len(c) = 2 => c[2].op = "select"
           /\ procs[p].pc = "done" <=> c[Len(c)].res # "pending"

\* C9, the end: the step in which the refetch returns closes the form and
\* clears the draft.
C9_SubmitCloseStep ==
    \A p \in Procs :
        (procs[p].kind = "submit" /\ procs[p].pc = "refetch" /\ Step(p)) =>
        /\ procs'[p].pc = "done"
        /\ showForm' = FALSE
        /\ editingProperty' = Null

\* C9: a successful submit is one write, one refetch, then the form closes.
C9_SubmitWriteRefetchClose ==
    []C9_SubmitTrace /\ [][C9_SubmitCloseStep]_vars

\* A create was submitted with a numeric price, inserted, and the form closed
C9_Witness ==
    \E p \in Procs :
        /\ procs[p].kind = "submit" /\ procs[p].pc = "done"
        /\ IsNull(procs[p].ed)
        /\ Len(procs[p].calls) = 2
        /\ procs[p].calls[1].data.price = Some(Num(7))
        /\ procs[p].calls[2].res = "ok"
        /\ ~showForm /\ IsNull(editingProperty)
        /\ Len(properties) = 2

\* C10, the calls: after a failed write the submit issues no refetch.
C10_FailedWriteTrace ==
    \A p \in Procs :
        (procs[p].kind = "submit" /\ procs[p].calls[1].res = "fail") =>
        /\ Len(procs[p].calls) = 1
        /\ procs[p].pc = "done"

\* C10, the step: the step in which the write fails sets the error message and
\* leaves the form and the draft as they are; a step of a submit closes the
\* form only if its write has succeeded.
C10_FailedWriteStep ==
    \A p \in Procs : (procs[p].kind = "submit" /\ Step(p)) =>
        /\ procs'[p].calls[1].res = "fail" =>
              /\ ~IsNull(error')
              /\ showForm' = showForm
              /\ editingProperty' = editingProperty
              /\ properties' = properties
        /\ (showForm /\ ~showForm') => procs[p].calls[1].res = "ok"

\* C10: a failed write shows the error and leaves the form open.
C10_FailedWriteKeepsFormOpen ==
    []C10_FailedWriteTrace /\ [][C10_FailedWriteStep]_vars

\* An update failed: the banner is set, the form is still open on the draft
C10_Witness ==
    \E p \in Procs :
        /\ procs[p].kind = "submit" /\ procs[p].pc = "done"
        /\ ~IsNull(procs[p].ed)
        /\ procs[p].calls[1].res = "fail"
        /\ error = Msg("write failed")
        /\ showForm /\ editingProperty = procs[p].ed

----------------------------------------------------------------------------
(* Store and storage: properties *)

\* Some handler's storage delete of this URL has succeeded
RemovedFromStorage(url) ==
    \E p \in Procs : \E i \in 1..Len(procs[p].calls) :
        /\ procs[p].calls[i].op = "remove"
        /\ procs[p].calls[i].url = url
        /\ procs[p].calls[i].res = "ok"

----------------------------------------------------------------------------
(* Record Manager: errors, draft and cache *)

RecordOps == {"select", "insert", "update", "delete"}

\* In this step, call i of invocation p, a request to the record store, fails
RecordRequestFails(p, i) ==
    /\ i \in 1..Len(procs[p].calls)
    /\ procs[p].calls[i].op \in RecordOps
    /\ procs[p].calls[i].res = "pending"
    /\ procs'[p].calls[i].res = "fail"

\* C12, as stated: every step in which a request to the record store fails
\* (select, insert, update, the images update of an image add or remove,
\* delete) leaves the manager's error message set.
C12_FailedRecordRequestStep ==
    \A p \in Procs : \A i \in 1..Len(procs[p].calls) :
        RecordRequestFails(p, i) => ~IsNull(error')

\* C12: a failed request to the record store always sets the error message.
C12_FailedRecordRequestSetsError == [][C12_FailedRecordRequestStep]_vars

----------------------------------------------------------------------------
(* Session Provider: teardown and lifecycle *)

\* C13, the subscription: the cleanup clears the `mounted` flag and
\* unsubscribes together, so a torn-down provider holds no live subscription.
C13_TornDownIsUnsubscribed == mounted <=> subscribed

\* C13, the state: once the subscription is gone it stays gone, and no step (a
\* late completion of the initial fetch, with an identity or an error, or a
\* late session-change event) changes the provider's state.
C13_AfterTeardownStep ==
    ~subscribed => (authState' = authState /\ ~subscribed' /\ ~mounted')

\* C13: after teardown the provider is unsubscribed and its state is frozen.
C13_NoUpdateAfterTeardown ==
    []C13_TornDownIsUnsubscribed /\ [][C13_AfterTeardownStep]_vars

\* The provider was torn down before anything was applied; the initial fetch
\* then completed and a session-change event arrived, and the state is still
\* the initial one
C13_Witness ==
    /\ ~mounted /\ ~subscribed
    /\ fetchPc = "done"
    /\ events >= 1
    /\ authState = InitialAuthState

\* C14, the redirect: in every reachable state the guard has issued no
\* navigation, and no view the provider can expose meets the effect's
\* condition.
C14_NoNavigation ==
    /\ navigations = 0
    /\ ~ShouldNavigate(UseAuth(authState))
    /\ ~ShouldNavigate(rendered.view)

\* C14, the output: from a view that is initialized, not loading and without
\* an identity the guard renders nothing.
C14_UnauthenticatedRendersNothing ==
    /\ (rendered.view.isInitialized /\ ~rendered.view.loading
            /\ IsNull(rendered.view.user)) => rendered.out = "nothing"
    /\ (authState.initialized /\ ~authState.loading /\ IsNull(authState.user))
            => GuardOutput(UseAuth(authState)) = "nothing"

\* C14: the guard never redirects; an unauthenticated, initialized session
\* gets an empty render instead.
C14_GuardNeverRedirects ==
    C14_NoNavigation /\ C14_UnauthenticatedRendersNothing

\* The initial fetch failed; the guard re-rendered from the initialized view
\* without identity, ran its effect with the new dependencies, and rendered
\* nothing
C14_Witness ==
    /\ fetchPc = "done"
    /\ authState.initialized /\ ~authState.loading /\ IsNull(authState.user)
    /\ authState.error
    /\ rendered.view = UseAuth(authState)
    /\ effectDeps = GuardDeps(UseAuth(authState))
    /\ rendered.out = "nothing"

\* C15, the invariant: a draft exists only while the form is shown.
C15_DraftImpliesFormShown == ~IsNull(editingProperty) => showForm

\* C15, the steps: a step that closes the form (cancel, or the end of a
\* successful submit) leaves the draft null.
C15_CloseDiscardsDraft ==
    (showForm /\ ~showForm') => IsNull(editingProperty')

\* C15, as stated: the draft exists only while the form is open, and cancel
\* and successful submit both leave it null.
C15_DraftOnlyWhileFormOpen ==
    []C15_DraftImpliesFormShown /\ [][C15_CloseDiscardsDraft]_vars

NoHandlerInFlight == \A p \in Procs : procs[p].pc = "done" /\ Pending(p) = {}

NoCallFailed ==
    \A p \in Procs : \A i \in 1..Len(procs[p].calls) : procs[p].calls[i].res # "fail"

\* C16, the refetch: a handler that has returned has issued a select after
\* every successful insert, update (the images update of an image add or
\* remove included) or record delete of its own.
C16_MutationsAreRefetched ==
    \A p \in Procs : procs[p].pc = "done" =>
        \A i \in 1..Len(procs[p].calls) :
            (procs[p].calls[i].op \in {"insert", "update", "delete"}
                /\ procs[p].calls[i].res = "ok") =>
            \E j \in (i + 1)..Len(procs[p].calls) : procs[p].calls[j].op = "select"

\* C16, the cache: whenever no handler is in flight (and no call has failed),
\* the cached list, each record's images included, is what the store holds.
C16_CacheEqualsStore ==
    (NoHandlerInFlight /\ NoCallFailed) => properties = SelectAll(store)

\* C16, as stated: every successful mutation of the store is followed by a
\* refetch, so the idle manager's cached list equals the store's contents.
C16_CacheResynchronized ==
    C16_MutationsAreRefetched /\ C16_CacheEqualsStore

\* C17, the calls: a declined delete has returned and has issued no call: no
\* storage delete, no record delete, no refetch.
C17_DeclinedIssuesNothing ==
    \A p \in Procs : procs[p].kind = "declined" =>
        procs[p].calls = << >> /\ procs[p].pc = "done"

\* C17, the frame: the step in which the confirmation is declined changes
\* neither the list, the draft, the form, the error message, the loading flag,
\* the store nor the storage.
C17_DeclinedStep ==
    \A p \in Procs : (procs[p].kind # "declined" /\ procs'[p].kind = "declined") =>
        /\ properties' = properties
        /\ editingProperty' = editingProperty
        /\ showForm' = showForm
        /\ error' = error
        /\ loading' = loading
        /\ store' = store
        /\ storage' = storage

\* C17: a declined delete does nothing.
C17_DeclinedDeleteDoesNothing ==
    []C17_DeclinedIssuesNothing /\ [][C17_DeclinedStep]_vars

\* The delete of a record with images was declined while its form was open
\* on it: the record and its objects are still there
C17_Witness ==
    \E p \in Procs :
        /\ procs[p].kind = "declined"
        /\ Len(Val(procs[p].ed).images) = 2
        /\ Val(procs[p].ed).id \in DOMAIN store
        /\ Range(Val(procs[p].ed).images) \subseteq storage
        /\ showForm /\ editingProperty = procs[p].ed

----------------------------------------------------------------------------
(* Record Manager: termination *)

\* In this step invocation p issues a call
IssuesCall(p) == Len(procs'[p].calls) > Len(procs[p].calls)

SomeCallFailed(p) ==
    \E i \in 1..Len(procs[p].calls) : procs[p].calls[i].res = "fail"

\* C18, completion: every handler that is suspended at a call eventually
\* returns, and every call it issued eventually settles.
C18_HandlersComplete ==
    \A p \in Procs :
        (procs[p].pc # "done" \/ Pending(p) # {})
            ~> (procs[p].pc = "done" /\ Pending(p) = {})

\* C18, loading: the loading flag eventually becomes false, and stays false.
C18_LoadingEnds == <>[](~loading)

\* C18, interactivity: in a state in which some call has failed, the screen is
\* rendered (not loading), the user can open the form, and the handler whose
\* awaited call failed has returned.
C18_InteractiveAfterFailure ==
    \A p \in Procs : SomeCallFailed(p) =>
        /\ ~loading
        /\ ENABLED OpenCreate
        /\ procs[p].pc = "done"

\* C18, no retry: a settled call stays settled as it was, and a handler one of
\* whose calls has failed issues no further call.
C18_NoRetryStep ==
    \A p \in Procs :
        /\ \A i \in 1..Len(procs[p].calls) :
              procs[p].calls[i].res # "pending" =>
                  procs'[p].calls[i] = procs[p].calls[i]
        /\ (SomeCallFailed(p) \/ SomeCallFailed(p)') => ~IssuesCall(p)

----------------------------------------------------------------------------
(* Session Provider: lifecycle flags *)

\* C19, the flags: in every reachable state, loading is false exactly when
\* initialized is true.
C19_LoadingIffNotInitialized == ~authState.loading <=> authState.initialized

\* C19, monotonic: no step (fetch completion, session-change event,
\* teardown, late arrival) makes initialized false again.
C19_InitializedStaysStep == authState.initialized => authState'.initialized

\* C19: loading ends exactly when the session is initialized, for good.
C19_LoadingEndsWithInitialized ==
    []C19_LoadingIffNotInitialized /\ [][C19_InitializedStaysStep]_vars

\* Events and the fetch completion were applied in both orders of arrival,
\* the provider is initialized, and it has been torn down since
C19_Witness ==
    /\ authState.initialized /\ ~authState.loading
    /\ Len(applied) >= 3
    /\ applied[1] = "event" /\ applied[2] = "fetch" /\ applied[3] = "event"
    /\ ~mounted

----------------------------------------------------------------------------
(* Record Manager: image add while creating *)

\* Invocation p is an image add started while no record was being edited
CreatingUpload(p) == procs[p].kind = "upload" /\ IsNull(procs[p].ed)

\* C20, the calls: an image add started with no draft issues one upload per
\* file, each under the owner key 'new' (written 0) and none under a record's
\* id, and no update; once all have settled it has returned.
C20_CreatingUploadTrace ==
    \A p \in Procs : CreatingUpload(p) =>
        LET c == procs[p].calls
        IN /\ Len(c) = procs[p].n
           /\ \A i \in 1..Len(c) : c[i].op = "upload" /\ c[i].id = 0
           /\ ~HasCall(c, "update")
           /\ Pending(p) = {} => procs[p].pc = "done"

\* C20, the frame: no step of such an image add changes the draft or the store.
C20_CreatingUploadStep ==
    \A p \in Procs : (CreatingUpload(p) /\ Step(p)) =>
        /\ editingProperty' = editingProperty
        /\ store' = store

\* C20, the submit: every insert carries an empty images sequence, so no
\* stored record lists a URL uploaded under the key 'new'.
C20_InsertCarriesNoImages ==
    /\ \A p \in Procs : \A i \in 1..Len(procs[p].calls) :
          procs[p].calls[i].op = "insert" => procs[p].calls[i].data.images = << >>
    /\ \A p \in Procs : CreatingUpload(p) =>
          \A i \in 1..Len(procs[p].calls) : \A id \in DOMAIN store :
              procs[p].calls[i].url \notin Range(store[id].images)

\* C20: an image add while creating uploads under 'new', updates no record,
\* leaves the draft alone, and the following insert carries no images.
C20_CreatingUploadAttachesNothing ==
    /\ []C20_CreatingUploadTrace
    /\ []C20_InsertCarriesNoImages
    /\ [][C20_CreatingUploadStep]_vars

\* Two files were added while creating and both uploads succeeded; the submit
\* that followed inserted the record: the objects are stored, the new record
\* has no images
C20_Witness ==
    \E p, q \in Procs :
        /\ p < q
        /\ CreatingUpload(p) /\ procs[p].n = 2 /\ procs[p].pc = "done"
        /\ \A i \in 1..2 : procs[p].calls[i].res = "ok"
                              /\ procs[p].calls[i].url \in storage
        /\ procs[q].kind = "submit" /\ procs[q].pc = "done"
        /\ procs[q].calls[1].op = "insert" /\ procs[q].calls[1].res = "ok"
        /\ nextId - 1 \in DOMAIN store
        /\ store[nextId - 1].images = << >>

----------------------------------------------------------------------------
(* Record Manager: overlapping image sub-flows *)

\* Invocation p is an image add or remove on a persisted record that has
\* returned with every call, its images update included, successful
ImageFlowSucceeded(p) ==
    /\ procs[p].kind \in {"upload", "imgdel"}
    /\ ~IsNull(procs[p].ed)
    /\ procs[p].pc = "done"
    /\ \A i \in 1..Len(procs[p].calls) : procs[p].calls[i].res = "ok"
    /\ procs[p].calls[Len(procs[p].calls)].op = "update"

\* The URLs invocation p uploaded, and the URLs it removed
UploadedBy(p) ==
    {procs[p].calls[i].url : i \in {j \in 1..Len(procs[p].calls) :
                                        procs[p].calls[j].op = "upload"}}
RemovedBy(p) ==
    {procs[p].calls[i].url : i \in {j \in 1..Len(procs[p].calls) :
                                        procs[p].calls[j].op = "remove"}}

\* C21, as stated: when an image add and another image add or remove on the
\* same edited record overlap (the second is started before the first has
\* returned) and both complete successfully, the record's persisted images
\* contain every URL either of them uploaded and none either of them removed.
C21_OverlappingImageFlowsLoseNothing ==
    \A p, q \in Procs :
        (/\ p \in procs[q].over
         /\ ImageFlowSucceeded(p) /\ ImageFlowSucceeded(q)
         /\ "upload" \in {procs[p].kind, procs[q].kind}
         /\ Val(procs[p].ed).id = Val(procs[q].ed).id
         /\ Val(procs[p].ed).id \in DOMAIN store) =>
        LET images == Range(store[Val(procs[p].ed).id].images)
        IN /\ UploadedBy(p) \cup UploadedBy(q) \subseteq images
           /\ (RemovedBy(p) \cup RemovedBy(q)) \cap images = {}

====
